---- MODULE Spec2Model ----
(***************************************************************************)
(* Model of the recipe-creation write path of the repository:              *)
(*   - validateCreateRecipeCommand / validateIngredient (request validator)*)
(*   - OpenRouterService (outbound LLM client with retry/backoff)          *)
(*   - RecipeService.createRecipe and the POST /api/v1/recipes handler     *)
(*                                                                         *)
(* JavaScript values are tagged records, so that typeof, truthiness and    *)
(* property reads are computed the way the runtime computes them.          *)
(***************************************************************************)
EXTENDS Integers, Sequences, FiniteSets, TLC

\* ------------------------------------------------------------------------
\* Program constants
\* ------------------------------------------------------------------------
MaxTitleLen == 300
MaxNameLen == 200
MinStepLen == 10
MaxStepLen == 500
UuidLen == 36
\* OpenRouterService: default maxRetries, backoff base and cap (ms), jitter range
DefaultMaxRetries == 3
BackoffBase == 300
BackoffCap == 2000
JitterRange == 100

\* ------------------------------------------------------------------------
\* Bounds of the model
\* ------------------------------------------------------------------------
\* longest recipe_data.steps array drawn as validator input
MaxSteps == 2
\* longest recipe_data.ingredients array drawn as validator input
MaxIngredients == 2
\* largest maxRetries passed explicitly in the OpenRouterService config
MaxRetriesCfg == 2
\* number of POST /api/v1/recipes requests served one after the other
MaxRequests == 1

\* ------------------------------------------------------------------------
\* JavaScript values
\* ------------------------------------------------------------------------
Undefined == [t |-> "undefined"]
Null == [t |-> "null"]
Bool(b) == [t |-> "boolean", b |-> b]
\* a finite double, counted in units of the smallest positive double
Num(v) == [t |-> "number", k |-> "fin", v |-> v]
NaN == [t |-> "number", k |-> "nan", v |-> 0]
PosInf == [t |-> "number", k |-> "inf", v |-> 1]
NegInf == [t |-> "number", k |-> "-inf", v |-> 0 - 1]
\* a string of len UTF-16 units, trimLen of them left by trim(); cls tells
\* whether it is a well-formed UUID ("uuid"), made only of [0-9a-fA-F-]
\* ("hexdash"), or anything else ("other")
Str(len, trimLen, cls) == [t |-> "string", len |-> len, trimLen |-> trimLen, cls |-> cls]
Text(len) == Str(len, len, "other")
Arr(items) == [t |-> "array", items |-> items]
Obj(fields) == [t |-> "object", fields |-> fields]

TypeOf(x) ==
    CASE x.t = "undefined" -> "undefined"
      [] x.t = "null" -> "object"
      [] x.t = "array" -> "object"
      [] OTHER -> x.t

IsNullish(x) == x.t \in {"undefined", "null"}

\* ToBoolean
Truthy(x) ==
    CASE x.t \in {"undefined", "null"} -> FALSE
      [] x.t = "boolean" -> x.b
      [] x.t = "number" -> ~(x.k = "nan" \/ (x.k = "fin" /\ x.v = 0))
      [] x.t = "string" -> x.len > 0
      [] OTHER -> TRUE

\* obj.f for a value that is not null or undefined (those throw a TypeError)
Get(x, f) ==
    IF x.t = "object" /\ f \in DOMAIN x.fields THEN x.fields[f] ELSE Undefined

IsArray(x) == x.t = "array"

\* x <= 0 on a number
NumLeqZero(x) == x.k = "-inf" \/ (x.k = "fin" /\ x.v <= 0)
NumLtZero(x) == x.k = "-inf" \/ (x.k = "fin" /\ x.v < 0)

\* ------------------------------------------------------------------------
\* recipe.validator: validateIngredient, validateCreateRecipeCommand
\* ------------------------------------------------------------------------
\* an entry of the errors map: the key is path, or path[idx] when idx is set
\* (a JS index); msg is the message text and msgIdx the index it names
ErrAt(path, idx, msg, msgIdx) == [path |-> path, idx |-> <<idx>>, msg |-> msg, msgIdx |-> msgIdx]
Err(path, msg) == [path |-> path, idx |-> <<>>, msg |-> msg, msgIdx |-> <<>>]

\* result of a synchronous call that may throw
Returned(v) == [k |-> "return", v |-> v]
Thrown == [k |-> "throw", v |-> "TypeError"]

isUuid(value) ==
    TypeOf(value) = "string" /\ value.len = UuidLen /\ value.cls \in {"uuid", "hexdash"}

QuantityInvalid_Strict(q) ==
    TypeOf(q) /= "number" \/ q.k = "nan" \/ NumLtZero(q)

QuantityInvalid(q) ==
    TypeOf(q) /= "number" \/ q.k = "nan" \/ NumLeqZero(q)

NotAnObject_Unchecked(item) ==
    FALSE

NotAnObject(item) ==
    TypeOf(item) /= "object" \/ item = Null

\* the message (a string) or "null"; Thrown when a property of null or
\* undefined is read
validateIngredient(item, index) ==
    IF NotAnObject(item) THEN Returned("must be an object")
    ELSE IF IsNullish(item) THEN Thrown
    ELSE LET name == Get(item, "name")
             quantity == Get(item, "quantity")
             unit_id == Get(item, "unit_id")
             unit_text == Get(item, "unit_text")
             normalized_name == Get(item, "normalized_name")
         IN  IF ~Truthy(name) \/ TypeOf(name) /= "string" \/ name.trimLen = 0
                 THEN Returned("name is required")
             ELSE IF name.len > MaxNameLen THEN Returned("name too long")
             ELSE IF QuantityInvalid(quantity)
                 THEN Returned("quantity must be a number > 0")
             ELSE IF Truthy(unit_id) /\ ~isUuid(unit_id)
                 THEN Returned("unit_id must be a valid UUID")
             ELSE IF Truthy(unit_text) /\ TypeOf(unit_text) /= "string"
                 THEN Returned("unit_text must be a string")
             ELSE IF Truthy(normalized_name) /\ TypeOf(normalized_name) /= "string"
                 THEN Returned("normalized_name must be a string")
             ELSE Returned("null")

StepError_OffByOne(s) ==
    IF TypeOf(s) /= "string" THEN "step must be a string"
    ELSE IF s.len <= MinStepLen THEN "step too short (min 10 chars)"
    ELSE IF s.len >= MaxStepLen THEN "step too long (max 500 chars)"
    ELSE "null"

\* body of the steps.forEach callback: the message set for the step, or "null"
StepError(s) ==
    IF TypeOf(s) /= "string" THEN "step must be a string"
    ELSE IF s.len < MinStepLen THEN "step too short (min 10 chars)"
    ELSE IF s.len > MaxStepLen THEN "step too long (max 500 chars)"
    ELSE "null"

TitleErrors(title) ==
    IF ~Truthy(title) \/ TypeOf(title) /= "string" \/ title.trimLen = 0
        THEN {Err("title", "title is required")}
    ELSE IF title.len > MaxTitleLen THEN {Err("title", "title too long (max 300)")}
    ELSE {}

RawTextErrors(raw_text) ==
    IF ~Truthy(raw_text) \/ TypeOf(raw_text) /= "string" \/ raw_text.trimLen = 0
        THEN {Err("raw_text", "raw_text is required")}
    ELSE {}

IngredientsErrors_FirstOnly(ingredients) ==
    IF ~IsArray(ingredients) \/ Len(ingredients.items) = 0
        THEN {Err("recipe_data.ingredients", "ingredients must be a non-empty array")}
    ELSE LET bad == {j \in 1..Len(ingredients.items) :
                       validateIngredient(ingredients.items[j], j - 1) /= Returned("null")}
         IN  {ErrAt("recipe_data.ingredients", i - 1,
                    validateIngredient(ingredients.items[i], i - 1).v, <<i - 1>>) :
                i \in {j \in bad : \A k \in bad : j <= k}}

IngredientsErrors(ingredients) ==
    IF ~IsArray(ingredients) \/ Len(ingredients.items) = 0
        THEN {Err("recipe_data.ingredients", "ingredients must be a non-empty array")}
    ELSE {ErrAt("recipe_data.ingredients", i - 1,
                validateIngredient(ingredients.items[i], i - 1).v, <<i - 1>>) :
            i \in {j \in 1..Len(ingredients.items) :
                     validateIngredient(ingredients.items[j], j - 1) /= Returned("null")}}

IngredientsThrow(ingredients) ==
    /\ IsArray(ingredients)
    /\ \E i \in 1..Len(ingredients.items) : validateIngredient(ingredients.items[i], i - 1) = Thrown

StepsErrors(steps) ==
    IF ~IsArray(steps)
        THEN {Err("recipe_data.steps", "steps must be an array of strings")}
    ELSE {ErrAt("recipe_data.steps", i - 1, StepError(steps.items[i]), <<>>) :
            i \in {j \in 1..Len(steps.items) : StepError(steps.items[j]) /= "null"}}

RecipeDataErrors(recipe_data) ==
    IF ~Truthy(recipe_data) \/ TypeOf(recipe_data) /= "object"
        THEN {Err("recipe_data", "recipe_data is required and must be an object")}
    ELSE LET title == Get(recipe_data, "title")
         IN  (IF ~Truthy(title) \/ TypeOf(title) /= "string" \/ title.trimLen = 0
                  THEN {Err("recipe_data.title", "recipe_data.title required")}
                  ELSE {})
             \cup IngredientsErrors(Get(recipe_data, "ingredients"))
             \cup StepsErrors(Get(recipe_data, "steps"))

\* [k |-> "valid"], [k |-> "invalid", errors] or [k |-> "throw"]
validateCreateRecipeCommand(body) ==
    IF ~Truthy(body) \/ TypeOf(body) /= "object"
        THEN [k |-> "invalid", errors |-> {Err("body", "Request body must be a JSON object")}]
    ELSE LET title == Get(body, "title")
             raw_text == Get(body, "raw_text")
             recipe_data == Get(body, "recipe_data")
             recipeDataChecked == Truthy(recipe_data) /\ TypeOf(recipe_data) = "object"
             errors == TitleErrors(title) \cup RawTextErrors(raw_text)
                         \cup RecipeDataErrors(recipe_data)
         IN  IF recipeDataChecked /\ IngredientsThrow(Get(recipe_data, "ingredients"))
                 THEN [k |-> "throw", errors |-> {}]
             ELSE IF Cardinality(errors) > 0 THEN [k |-> "invalid", errors |-> errors]
             ELSE [k |-> "valid", errors |-> {}]

\* ------------------------------------------------------------------------
\* OpenRouterService: errors
\* ------------------------------------------------------------------------
\* optional fields are <<>> (undefined) or <<v>>
MkErr(name, code, msg, status, retryAfter, body, details, cause) ==
    [name |-> name, code |-> code, msg |-> msg, status |-> status, retryAfter |-> retryAfter,
     body |-> body, details |-> details, cause |-> cause]
NoErr == MkErr("none", "none", "", <<>>, <<>>, <<>>, <<>>, <<>>)
\* an error that is not an OpenRouterError (TypeError of fetch, AbortError, SyntaxError)
JsError(name) == MkErr(name, "none", name, <<>>, <<>>, <<>>, <<>>, <<>>)
\* `OpenRouter returned ${status}: ${text}` keeps the body in the message
OpenRouterError(msg, code, status, body, cause) ==
    MkErr("OpenRouterError", code, msg, status, <<>>, body, <<>>, cause)
AuthenticationError(msg) ==
    MkErr("AuthenticationError", "AUTH", msg, <<>>, <<>>, <<>>, <<>>, <<>>)
NetworkError(msg, cause) ==
    MkErr("NetworkError", "NETWORK", msg, <<>>, <<>>, <<>>, <<>>, <<cause>>)
RateLimitError(msg, retryAfter) ==
    MkErr("RateLimitError", "RATE_LIMIT", msg, <<>>, retryAfter, <<>>, <<>>, <<>>)
ResponseFormatError(msg, details) ==
    MkErr("ResponseFormatError", "FORMAT", msg, <<>>, <<>>, <<>>, <<details>>, <<>>)
ValidationError(msg) ==
    MkErr("ValidationError", "VALIDATION", msg, <<>>, <<>>, <<>>, <<>>, <<>>)
UnsupportedFeatureError(msg) ==
    MkErr("UnsupportedFeatureError", "UNSUPPORTED", msg, <<>>, <<>>, <<>>, <<>>, <<>>)

\* ------------------------------------------------------------------------
\* OpenRouterService: what the provider can answer
\* ------------------------------------------------------------------------
\* a parsed JSON body: m tells whether the value itself conforms to the
\* requested schema; output and message are its `output` and
\* `choices[0].message` members when present
Json(isNull, m, output, message) ==
    [isNull |-> isNull, m |-> m, output |-> output, message |-> message]
JsonNull == Json(TRUE, FALSE, <<>>, <<>>)
Leaf(m) == Json(FALSE, m, <<>>, <<>>)
NoJson == Json(FALSE, FALSE, <<>>, <<>>)

\* kind "network": fetch rejects; "abort": the timeout aborted the request;
\* "http": a response with a status, a Retry-After header (<<>> when absent,
\* <<[num |-> <<n>>]>> for digits, <<[num |-> <<>>]>> for an HTTP date), the
\* body text and, when the body parses as JSON, its value
Resp(kind, status, header, text, json) ==
    [kind |-> kind, status |-> status, header |-> header, text |-> text, json |-> json]
NetFail == Resp("network", 0, <<>>, "", <<>>)
Aborted == Resp("abort", 0, <<>>, "", <<>>)
HttpError(status, header) == Resp("http", status, header, "error body", <<>>)
HttpOk(json) == Resp("http", 200, <<>>, "json body", json)

FailureResponses ==
    {NetFail, Aborted, HttpError(401, <<>>), HttpError(429, <<>>),
     HttpError(429, <<[num |-> <<30>>]>>), HttpError(500, <<>>), HttpOk(<<>>)}
JsonValues ==
    {JsonNull, Leaf(TRUE), Leaf(FALSE),
     Json(FALSE, FALSE, <<Leaf(TRUE)>>, <<>>),
     Json(FALSE, TRUE, <<Leaf(FALSE)>>, <<>>),
     Json(FALSE, FALSE, <<>>, <<Leaf(TRUE)>>),
     Json(FALSE, FALSE, <<Json(FALSE, FALSE, <<Leaf(TRUE)>>, <<>>)>>, <<>>)}
Responses == FailureResponses \cup {HttpOk(<<j>>) : j \in JsonValues}

\* ------------------------------------------------------------------------
\* OpenRouterService: helpers
\* ------------------------------------------------------------------------
Raise(err) == [k |-> "throw", err |-> err, val |-> NoJson]
Return(val) == [k |-> "return", err |-> NoErr, val |-> val]
Pending == [k |-> "pending", err |-> NoErr, val |-> NoJson]

ConfiguredMaxRetries_OneMore(cfg) == IF cfg = <<>> THEN DefaultMaxRetries + 1 ELSE cfg[1] + 1
\* typeof maxRetries === 'number' ? maxRetries : 3
ConfiguredMaxRetries(cfg) == IF cfg = <<>> THEN DefaultMaxRetries ELSE cfg[1]

\* parseInt(res.headers.get('Retry-After') || '0', 10) || undefined
ParseRetryAfter(header) ==
    IF header = <<>> \/ header[1].num = <<>> \/ header[1].num = <<0>> THEN <<>>
    ELSE header[1].num

ResOk(res) == res.status >= 200 /\ res.status <= 299

\* data?.output ?? data?.choices?.[0]?.message ?? data
Candidate(data) ==
    IF data.isNull THEN data
    ELSE IF data.output /= <<>> THEN data.output[1]
    ELSE IF data.message /= <<>> THEN data.message[1]
    ELSE data

handleOpenRouterResponse(res, hasResponseFormat) ==
    IF ~ResOk(res)
        THEN IF res.status = 401 THEN Raise(AuthenticationError("Invalid API key"))
             ELSE IF res.status = 429
                 THEN Raise(RateLimitError("Rate limited by OpenRouter", ParseRetryAfter(res.header)))
             ELSE Raise(OpenRouterError("OpenRouter returned", "OPENROUTER_HTTP",
                                        <<res.status>>, <<res.text>>, <<>>))
    ELSE IF res.json = <<>>
        THEN Raise(OpenRouterError("Invalid JSON response from OpenRouter", "INVALID_JSON",
                                   <<res.status>>, <<>>, <<JsError("SyntaxError")>>))
    ELSE IF hasResponseFormat THEN Return(Candidate(res.json[1]))
    ELSE Return(res.json[1])

\* the catch clause of `attempt`: it receives whatever the try block threw
AttemptCatch(err) ==
    IF err.name = "AbortError" THEN Raise(NetworkError("Request timeout", err))
    ELSE Raise(NetworkError("Network request failed", err))

\* one run of the `attempt` closure of sendMessage against one provider answer
Attempt(res, hasResponseFormat) ==
    LET tried == IF res.kind = "network" THEN Raise(JsError("TypeError"))
                 ELSE IF res.kind = "abort" THEN Raise(JsError("AbortError"))
                 ELSE handleOpenRouterResponse(res, hasResponseFormat)
    IN  IF tried.k = "throw" THEN AttemptCatch(tried.err) ELSE tried

isRetriableError_RateLimitOnly(err) == err.name = "RateLimitError"

isRetriableError(err) == err.name \in {"RateLimitError", "NetworkError"}

RECURSIVE Pow2(_)
Pow2(n) == IF n <= 0 THEN 1 ELSE 2 * Pow2(n - 1)
Min(a, b) == IF a < b THEN a ELSE b
BackoffWait_Uncapped(attempt, jitter) == BackoffBase * Pow2(attempt) + jitter

\* Math.min(2000, base * Math.pow(2, attempt)) + jitter
BackoffWait(attempt, jitter) == Min(BackoffCap, BackoffBase * Pow2(attempt)) + jitter

StructuredResult_Unchecked(schemaCompiles, res) ==
    LET payload == IF ~res.isNull /\ res.output /= <<>> THEN res.output[1] ELSE res
    IN  IF ~schemaCompiles THEN Raise(ValidationError("Invalid response schema provided"))
        ELSE Return(payload)

\* the part of sendStructuredMessage that follows `await this.sendMessage`
StructuredResult(schemaCompiles, res) ==
    LET payload == IF ~res.isNull /\ res.output /= <<>> THEN res.output[1] ELSE res
    IN  IF ~schemaCompiles THEN Raise(ValidationError("Invalid response schema provided"))
        ELSE IF ~payload.m
            THEN Raise(ResponseFormatError("Response did not match schema", "validator.errors"))
        ELSE Return(payload)

\* ------------------------------------------------------------------------
\* State
\* ------------------------------------------------------------------------
VARIABLES
    vPc,        \* validator run: "input" or "validated"
    vBody,      \* the value handed to validateCreateRecipeCommand
    vResult,    \* what the call produced
    llmPc,      \* OpenRouterService call: "idle", "attempt", "waiting", "validate", "done"
    llmCfg,     \* config.maxRetries: <<>> when omitted, else <<n>>
    llmShutdown,\* this.isShutdown
    llmCall,    \* the public method running and its arguments
    llmAttempt, \* `attempt` of retryWithBackoff
    llmHttp,    \* HTTP requests sent by the running call
    llmTrace,   \* the provider's answers to them, in order
    llmRes,     \* what sendMessage returned to sendStructuredMessage
    llmOut,     \* how the public call settled
    llmWait,    \* the delay retryWithBackoff is sleeping for (ms)
    llmLog,     \* what the last step handed to the logger
    dbRecipes,  \* table recipes: a set of rows
    dbIngredients, \* table ingredients: a set of rows
    dbAudit,    \* table recipe_audit: a set of rows
    dbUsers,    \* table users: the user_id of each row, in insertion order
    dbMap,      \* table auth_user_map: rows in insertion order
    apiKey,     \* process.env.OPENROUTER_API_KEY: <<>> when unset
    served,     \* requests received so far (also the source of fresh uuids)
    req         \* per request: the handler's position and local variables

valVars == <<vPc, vBody, vResult>>
llmVars == <<llmPc, llmCfg, llmShutdown, llmCall, llmAttempt, llmHttp, llmTrace, llmRes,
             llmOut, llmWait, llmLog>>
dbVars == <<dbRecipes, dbIngredients, dbAudit, dbUsers, dbMap>>
reqVars == <<dbVars, apiKey, served, req>>
vars == <<valVars, llmVars, reqVars>>

ValidatorIdle ==
    /\ vPc = "idle"
    /\ vBody = Undefined
    /\ vResult = [k |-> "pending", errors |-> {}]

\* the handler's locals before a request arrives
NoResponse == [status |-> 0, code |-> "", message |-> "", details |-> {}, recipe |-> <<>>]
IdleRequest ==
    [pc |-> "idle", body |-> Undefined, header |-> "absent", authUserId |-> "", userId |-> "",
     recipeId |-> 0, recipeData |-> <<>>, ingredients |-> <<>>, pendingError |-> "",
     ops |-> <<>>, logs |-> <<>>, resp |-> NoResponse]
Requests == {"r1"}

HandlerIdle ==
    /\ dbRecipes = {}
    /\ dbIngredients = {}
    /\ dbAudit = {}
    /\ dbUsers = <<>>
    /\ dbMap = <<>>
    /\ apiKey = <<>>
    /\ served = 0
    /\ req = [r \in Requests |-> IdleRequest]

\* ------------------------------------------------------------------------
\* OpenRouterService: sendMessage, sendStructuredMessage, shutdown
\* ------------------------------------------------------------------------
NoCall == [kind |-> "none", hasResponseFormat |-> FALSE, schemaCompiles |-> FALSE]
NoLog == [level |-> "none", text |-> "", attempt |-> 0, wait |-> 0, err |-> ""]
LogLine(level, text, attempt, wait, err) ==
    [level |-> level, text |-> text, attempt |-> attempt, wait |-> wait, err |-> err]
\* values of the provider credential
ApiKeys == {"sk-A", "sk-B"}
\* this.apiKey of the service under test
ServiceKey == apiKey[1]
\* `Bearer ${key}`
Bearer(key) == IF key = "sk-A" THEN "Bearer sk-A" ELSE "Bearer sk-B"
buildHeaders(key) ==
    [ContentType |-> "application/json", Authorization |-> Bearer(key),
     Accept |-> "application/json"]

RetryLog_WithRequest(key, attempt, wait, err) ==
    LogLine("warn", "Retrying after error", attempt, wait, buildHeaders(key).Authorization)

\* what the methods of a service holding `key` pass to the logger
\* logger.warn('Retrying after error', { attempt, wait, err: err.message })
RetryLog(key, attempt, wait, err) ==
    LogLine("warn", "Retrying after error", attempt, wait, err.msg)
\* logger.info('OpenRouterService shutdown')
ShutdownLog(key) == LogLine("info", "OpenRouterService shutdown", 0, 0, "")
\* logger.error('Healthcheck failed', err): err is what fetch rejected with,
\* or the AuthenticationError thrown for a 401
HealthCheckLog(key, res) ==
    IF res.kind /= "http" THEN LogLine("error", "Healthcheck failed", 0, 0, "TypeError")
    ELSE IF res.status = 401 THEN LogLine("error", "Healthcheck failed", 0, 0, "Invalid API key")
    ELSE NoLog
\* the value healthCheck resolves with
HealthCheckResult(res) ==
    [k |-> "return", err |-> NoErr, val |-> NoJson,
     ok |-> res.kind = "http" /\ res.status /= 401 /\ ResOk(res)]

\* Math.random() * 100, in whole milliseconds
Jitters == {0, JitterRange - 1}

LlmIdle ==
    /\ llmPc = "idle"
    /\ llmCfg = <<>>
    /\ llmShutdown = FALSE
    /\ llmCall = NoCall
    /\ llmAttempt = 0
    /\ llmHttp = 0
    /\ llmTrace = <<>>
    /\ llmRes = NoJson
    /\ llmOut = Pending
    /\ llmWait = 0
    /\ llmLog = NoLog

\* the synchronous head of sendMessage: it settles the call at once, or
\* enters retryWithBackoff
SendMessageEntry_NoShutdownCheck(call, messagesOk) ==
    IF ~messagesOk
        THEN /\ llmPc' = "done"
             /\ llmOut' = Raise(ValidationError("messages must be a non-empty array"))
    ELSE /\ llmPc' = "attempt"
         /\ llmOut' = Pending

SendMessageEntry(call, messagesOk) ==
    IF llmShutdown
        THEN /\ llmPc' = "done"
             /\ llmOut' = Raise(OpenRouterError("Service is shutdown", "OPENROUTER_ERROR", <<>>, <<>>, <<>>))
    ELSE IF ~messagesOk
        THEN /\ llmPc' = "done"
             /\ llmOut' = Raise(ValidationError("messages must be a non-empty array"))
    ELSE /\ llmPc' = "attempt"
         /\ llmOut' = Pending

LlmSendMessage ==
    /\ llmPc = "idle"
    /\ \E messagesOk \in BOOLEAN, hasResponseFormat \in BOOLEAN :
        LET call == [kind |-> "sendMessage", hasResponseFormat |-> hasResponseFormat,
                     schemaCompiles |-> FALSE]
        IN  /\ llmCall' = call
            /\ SendMessageEntry(call, messagesOk)
    /\ llmAttempt' = 0
    /\ llmHttp' = 0
    /\ llmTrace' = <<>>
    /\ llmRes' = NoJson
    /\ llmWait' = 0
    /\ llmLog' = NoLog
    /\ UNCHANGED <<llmCfg, llmShutdown, valVars, reqVars>>

LlmSendStructuredMessage ==
    /\ llmPc = "idle"
    /\ \E messagesOk \in BOOLEAN, formatOk \in BOOLEAN, schemaCompiles \in BOOLEAN :
        LET call == [kind |-> "sendStructuredMessage", hasResponseFormat |-> TRUE,
                     schemaCompiles |-> schemaCompiles]
        IN  /\ llmCall' = call
            /\ IF ~formatOk
                   THEN /\ llmPc' = "done"
                        /\ llmOut' = Raise(ValidationError("responseFormat must be json_schema"))
                   ELSE SendMessageEntry(call, messagesOk)
    /\ llmAttempt' = 0
    /\ llmHttp' = 0
    /\ llmTrace' = <<>>
    /\ llmRes' = NoJson
    /\ llmWait' = 0
    /\ llmLog' = NoLog
    /\ UNCHANGED <<llmCfg, llmShutdown, valVars, reqVars>>

streamResponses_EmptyStream == Return(NoJson)

\* the body of streamResponses: it reads neither its arguments nor the service
streamResponses == Raise(UnsupportedFeatureError("Streaming not implemented in this step"))

LlmStreamResponses ==
    /\ llmPc = "idle"
    /\ \E messagesOk \in BOOLEAN :
        llmCall' = [kind |-> "streamResponses", hasResponseFormat |-> FALSE,
                    schemaCompiles |-> FALSE, messagesOk |-> messagesOk]
    /\ llmOut' = streamResponses
    /\ llmPc' = "done"
    /\ llmAttempt' = 0
    /\ llmHttp' = 0
    /\ llmTrace' = <<>>
    /\ llmRes' = NoJson
    /\ llmWait' = 0
    /\ llmLog' = NoLog
    /\ UNCHANGED <<llmCfg, llmShutdown, valVars, reqVars>>

\* one iteration of retryWithBackoff: the attempt sends one request, and the
\* catch clause decides between rethrowing and sleeping
LlmAttempt ==
    /\ llmPc = "attempt"
    /\ \E res \in Responses, jitter \in Jitters :
        LET r == Attempt(res, llmCall.hasResponseFormat)
            attempt == llmAttempt + 1
            wait == BackoffWait(attempt, jitter)
        IN  /\ llmTrace' = Append(llmTrace, res)
            /\ llmHttp' = llmHttp + 1
            /\ IF r.k = "return"
                   THEN /\ llmAttempt' = llmAttempt
                        /\ llmWait' = 0
                        /\ llmLog' = NoLog
                        /\ IF llmCall.kind = "sendStructuredMessage"
                               THEN /\ llmPc' = "validate"
                                    /\ llmRes' = r.val
                                    /\ llmOut' = Pending
                               ELSE /\ llmPc' = "done"
                                    /\ llmRes' = NoJson
                                    /\ llmOut' = r
                   ELSE /\ llmAttempt' = attempt
                        /\ llmRes' = NoJson
                        /\ IF ~isRetriableError(r.err) \/ attempt > ConfiguredMaxRetries(llmCfg)
                               THEN /\ llmPc' = "done"
                                    /\ llmOut' = r
                                    /\ llmWait' = 0
                                    /\ llmLog' = NoLog
                               ELSE /\ llmPc' = "waiting"
                                    /\ llmOut' = Pending
                                    /\ llmWait' = wait
                                    /\ llmLog' = RetryLog(ServiceKey, attempt, wait, r.err)
    /\ UNCHANGED <<llmCfg, llmShutdown, llmCall, valVars, reqVars>>

\* the setTimeout of retryWithBackoff fires
LlmBackoffElapsed ==
    /\ llmPc = "waiting"
    /\ llmPc' = "attempt"
    /\ llmWait' = 0
    /\ llmLog' = NoLog
    /\ UNCHANGED <<llmCfg, llmShutdown, llmCall, llmAttempt, llmHttp, llmTrace, llmRes, llmOut,
                   valVars, reqVars>>

\* sendStructuredMessage resumes after sendMessage returned
LlmValidate ==
    /\ llmPc = "validate"
    /\ llmOut' = StructuredResult(llmCall.schemaCompiles, llmRes)
    /\ llmPc' = "done"
    /\ llmLog' = NoLog
    /\ UNCHANGED <<llmCfg, llmShutdown, llmCall, llmAttempt, llmHttp, llmTrace, llmRes, llmWait,
                   valVars, reqVars>>

\* the caller has taken the result; the service is ready for the next call
LlmReturn ==
    /\ llmPc = "done"
    /\ llmPc' = "idle"
    /\ llmCall' = NoCall
    /\ llmAttempt' = 0
    /\ llmHttp' = 0
    /\ llmTrace' = <<>>
    /\ llmRes' = NoJson
    /\ llmOut' = Pending
    /\ llmWait' = 0
    /\ llmLog' = NoLog
    /\ UNCHANGED <<llmCfg, llmShutdown, valVars, reqVars>>

LlmShutdownCall ==
    /\ ~llmShutdown
    /\ llmShutdown' = TRUE
    /\ llmLog' = ShutdownLog(ServiceKey)
    /\ UNCHANGED <<llmPc, llmCfg, llmCall, llmAttempt, llmHttp, llmTrace, llmRes, llmOut, llmWait,
                   valVars, reqVars>>

\* healthCheck: one GET of /v1/models, with no timeout and no retry
LlmHealthCheck ==
    /\ llmPc = "idle"
    /\ \E res \in Responses \ {Aborted} :
        /\ llmTrace' = <<res>>
        /\ llmOut' = HealthCheckResult(res)
        /\ llmLog' = HealthCheckLog(ServiceKey, res)
    /\ llmCall' = [kind |-> "healthCheck", hasResponseFormat |-> FALSE, schemaCompiles |-> FALSE]
    /\ llmPc' = "done"
    /\ llmAttempt' = 0
    /\ llmHttp' = 1
    /\ llmRes' = NoJson
    /\ llmWait' = 0
    /\ UNCHANGED <<llmCfg, llmShutdown, valVars, reqVars>>

\* no request has arrived at the handler; the environment holds `key`
HandlerIdleWithKey(key) ==
    /\ dbRecipes = {}
    /\ dbIngredients = {}
    /\ dbAudit = {}
    /\ dbUsers = <<>>
    /\ dbMap = <<>>
    /\ apiKey = <<key>>
    /\ served = 0
    /\ req = [r \in Requests |-> IdleRequest]

InitLLM ==
    /\ ValidatorIdle
    /\ HandlerIdleWithKey("sk-A")
    /\ llmPc = "idle"
    /\ llmCfg \in {<<>>} \cup {<<n>> : n \in 0..MaxRetriesCfg}
    /\ llmShutdown = FALSE
    /\ llmCall = NoCall
    /\ llmAttempt = 0
    /\ llmHttp = 0
    /\ llmTrace = <<>>
    /\ llmRes = NoJson
    /\ llmOut = Pending
    /\ llmWait = 0
    /\ llmLog = NoLog

NextLLM ==
    \/ LlmSendMessage
    \/ LlmSendStructuredMessage
    \/ LlmStreamResponses
    \/ LlmAttempt
    \/ LlmBackoffElapsed
    \/ LlmValidate
    \/ LlmReturn
    \/ LlmShutdownCall
    \/ LlmHealthCheck
SpecLLM == InitLLM /\ [][NextLLM]_vars

\* the service when every attempt settles, every backoff timer fires and the
\* response validation runs to its end
SpecLLMFair ==
    /\ SpecLLM
    /\ WF_vars(LlmAttempt)
    /\ WF_vars(LlmBackoffElapsed)
    /\ WF_vars(LlmValidate)

\* the service built with default options around either credential
InitLog ==
    /\ ValidatorIdle
    /\ \E key \in ApiKeys : HandlerIdleWithKey(key)
    /\ LlmIdle
SpecLog == InitLog /\ [][NextLLM]_vars

\* ------------------------------------------------------------------------
\* Inputs of the validator
\* ------------------------------------------------------------------------
\* a field that is absent reads as undefined, so absent fields are written
\* as Undefined
Ingredient(name, quantity, unit_id, unit_text, normalized_name) ==
    Obj([name |-> name, quantity |-> quantity, unit_id |-> unit_id,
         unit_text |-> unit_text, normalized_name |-> normalized_name])
RecipeData(title, ingredients, steps) ==
    Obj([title |-> title, ingredients |-> ingredients, steps |-> steps])
Body(title, raw_text, recipe_data) ==
    Obj([title |-> title, raw_text |-> raw_text, recipe_data |-> recipe_data])

EmptyObj == Obj([f \in {} |-> Undefined])
Blank == Str(3, 0, "other")
GoodIngredient == Ingredient(Text(6), Num(200), Undefined, Undefined, Undefined)
GoodStep == Text(26)

NameValues ==
    {Undefined, Null, Text(0), Blank, Text(6), Text(200), Text(201), Num(7)}
QuantityValues ==
    {Undefined, Null, Num(0 - 1), Num(0), Num(1), Num(200), NaN, PosInf, NegInf, Text(1)}
UnitIdValues ==
    {Undefined, Null, Text(0), Str(36, 36, "uuid"), Str(36, 36, "hexdash"), Str(36, 36, "other"),
     Str(35, 35, "hexdash"), Num(1), Bool(TRUE)}
OptionalTextValues ==
    {Undefined, Text(4), Text(0), Num(3)}

IngredientValues ==
    {Null, Undefined, Num(1), Text(6), Bool(TRUE), Arr(<<>>), EmptyObj}
    \cup {Ingredient(n, Num(200), Undefined, Undefined, Undefined) : n \in NameValues}
    \cup {Ingredient(Text(6), q, Undefined, Undefined, Undefined) : q \in QuantityValues}
    \cup {Ingredient(Text(0), q, Undefined, Undefined, Undefined) : q \in {Num(0), Num(0 - 1)}}
    \cup {Ingredient(Text(6), Num(1), u, Undefined, Undefined) : u \in UnitIdValues}
    \cup {Ingredient(Text(6), Num(1), Undefined, x, Undefined) : x \in OptionalTextValues}
    \cup {Ingredient(Text(6), Num(1), Undefined, Undefined, x) : x \in OptionalTextValues}

StepValues ==
    {Text(9), Text(10), Text(500), Text(501), Text(0), Null, Num(5), EmptyObj}

SeqsUpTo(S, n) == UNION {[1..k -> S] : k \in 0..n}

TitleValues ==
    {Undefined, Null, Text(0), Blank, Text(6), Text(300), Text(301), Num(7)}
RawTextValues ==
    {Undefined, Text(0), Blank, Text(40), Bool(TRUE)}
NonArrayValues ==
    {Undefined, Null, Text(20), Num(2), EmptyObj}
RecipeDataValues ==
    {Undefined, Null, Text(20), Num(2), Arr(<<>>), EmptyObj}
    \cup {RecipeData(t, Arr(<<GoodIngredient>>), Arr(<<GoodStep>>)) : t \in TitleValues}
    \cup {RecipeData(Text(6), i, s) : i \in NonArrayValues \cup {Arr(<<>>), Arr(<<GoodIngredient>>)},
                                      s \in NonArrayValues \cup {Arr(<<>>), Arr(<<GoodStep>>)}}

\* the steps dimension, the ingredients dimension, and the shape of the body
StepInputs ==
    {Body(t, Text(40), RecipeData(Text(6), Arr(<<i>>), Arr(s))) :
        t \in {Text(6), Text(0)}, i \in {GoodIngredient, Null}, s \in SeqsUpTo(StepValues, MaxSteps)}
IngredientInputs ==
    {Body(Text(6), Text(40), RecipeData(Text(6), Arr(i), Arr(<<GoodStep>>))) :
        i \in SeqsUpTo(IngredientValues, MaxIngredients)}
ShapeInputs ==
    {Null, Undefined, Num(0), Num(3), Text(0), Text(12), Bool(TRUE), Bool(FALSE),
     Arr(<<>>), Arr(<<Null>>), EmptyObj}
    \cup {Body(t, r, d) : t \in TitleValues, r \in RawTextValues, d \in RecipeDataValues}
\* several ingredients and several steps, valid and invalid ones mixed
MixedInputs ==
    {Body(Text(6), Text(40), RecipeData(Text(6), Arr(i), Arr(s))) :
        i \in SeqsUpTo({GoodIngredient, Null, Ingredient(Text(6), Num(0), Undefined, Undefined, Undefined)},
                       MaxIngredients),
        s \in SeqsUpTo({GoodStep, Text(9), Num(5)}, MaxSteps)}
ValidatorInputs == StepInputs \cup IngredientInputs \cup ShapeInputs

\* ------------------------------------------------------------------------
\* The validator applied to an input
\* ------------------------------------------------------------------------
InitValidator ==
    /\ vPc = "input"
    /\ \/ vBody \in ValidatorInputs
       \/ vBody \in MixedInputs
    /\ vResult = [k |-> "pending", errors |-> {}]
    /\ LlmIdle
    /\ HandlerIdle

Validate ==
    /\ vPc = "input"
    /\ vResult' = validateCreateRecipeCommand(vBody)
    /\ vPc' = "validated"
    /\ UNCHANGED <<vBody, llmVars, reqVars>>

NextValidator == Validate
SpecValidator == InitValidator /\ [][NextValidator]_vars

\* ------------------------------------------------------------------------
\* OpenRouterService: a whole call, as its caller sees it
\* ------------------------------------------------------------------------
\* how retryWithBackoff can settle after `attempt` failed attempts, over
\* every sequence of provider answers
RECURSIVE RetryOutcomes(_, _, _)
RetryOutcomes(attempt, retries, hasResponseFormat) ==
    UNION {LET r == Attempt(res, hasResponseFormat)
           IN  IF r.k = "return" THEN {r}
               ELSE IF ~isRetriableError(r.err) \/ attempt + 1 > retries THEN {r}
               ELSE RetryOutcomes(attempt + 1, retries, hasResponseFormat) : res \in Responses}

\* sendStructuredMessage on a service built with default options, with valid
\* messages and a schema that compiles (the call createRecipe makes)
SendStructuredOutcomes ==
    {IF r.k = "return" THEN StructuredResult(TRUE, r.val) ELSE r :
        r \in RetryOutcomes(0, DefaultMaxRetries, TRUE)}

\* ------------------------------------------------------------------------
\* POST /api/v1/recipes and RecipeService.createRecipe
\* ------------------------------------------------------------------------
\* a string whose content matters (an id)
IdStr(id) == [t |-> "string", len |-> 36, trimLen |-> 36, cls |-> "uuid", s |-> id]
Unparsable == [t |-> "unparsable"]

SalmonData ==
    RecipeData(Text(19), Arr(<<Ingredient(Text(6), Num(200), Undefined, Undefined, Undefined),
                                Ingredient(Text(7), Num(150), Undefined, Text(1), Undefined)>>),
               Arr(<<Text(27), Text(41)>>))
SoupData ==
    RecipeData(Text(4), Arr(<<Ingredient(Text(5), Num(1), Str(36, 36, "uuid"), Undefined, Text(5))>>),
               Arr(<<>>))
\* the second example of the specification: steps ["short"]
ShortStepData ==
    RecipeData(Text(19), Arr(<<GoodIngredient>>), Arr(<<Text(5)>>))
WithOwner(body, owner) ==
    Obj([f \in DOMAIN body.fields \cup {"owner_user_id"} |->
            IF f = "owner_user_id" THEN owner ELSE body.fields[f]])

HandlerBodies ==
    {Unparsable, Null,
     Body(Text(19), Text(40), ShortStepData),
     Body(Text(19), Text(40), SalmonData),
     WithOwner(Body(Text(4), Text(40), SoupData), IdStr("mallory"))}

\* the Authorization header: absent, one word, or two words whose second is
\* a token the auth service knows ("good") or not ("bad")
AuthHeaders == {"absent", "one-part", "good", "bad"}
\* the auth user behind the good token, and the internal id an earlier
\* mapping may hold for it
AuthUser == "auth-1"
MappedUser == "user-1"

\* outcomes of one persistence call: applied and answered, answered with
\* {error}, or the promise rejected
DbOutcomes == {"ok", "error", "throw"}

Fail(status, code, message) ==
    [status |-> status, code |-> code, message |-> message, details |-> {}, recipe |-> <<>>]
Created(recipe) ==
    [status |-> 201, code |-> "", message |-> "", details |-> {}, recipe |-> <<recipe>>]

\* the row createRecipe inserts into recipes
RecipeInsertPayload_FromBody(recipeId, userId, cmd) ==
    [id |-> recipeId,
     owner_user_id |-> IF Truthy(Get(cmd, "owner_user_id")) THEN Get(cmd, "owner_user_id").s ELSE userId,
     title |-> Get(cmd, "title"), raw_text |-> Get(cmd, "raw_text"),
     recipe_data |-> Get(cmd, "recipe_data"), cached_nutrition |-> "null"]

RecipeInsertPayload(recipeId, userId, cmd) ==
    [id |-> recipeId, owner_user_id |-> userId, title |-> Get(cmd, "title"),
     raw_text |-> Get(cmd, "raw_text"), recipe_data |-> Get(cmd, "recipe_data"),
     cached_nutrition |-> "null"]

\* the row as the database stores and returns it: as sent, or rewritten by
\* the database (triggers, defaults)
StoredRows(row) ==
    {row, [row EXCEPT !.recipe_data = EmptyObj, !.cached_nutrition = "db-default"]}

\* x ?? null
OrNull(x) == IF IsNullish(x) THEN Null ELSE x

IngredientsPayload_FirstEntry(recipeId, cmd) ==
    LET items == Get(Get(cmd, "recipe_data"), "ingredients").items
    IN  [i \in 1..Min(1, Len(items)) |->
            [id |-> <<recipeId, i>>,
             name |-> Get(items[i], "name"),
             normalized_name |-> OrNull(Get(items[i], "normalized_name")),
             quantity |-> Get(items[i], "quantity"),
             recipe_id |-> recipeId,
             unit_id |-> OrNull(Get(items[i], "unit_id")),
             unit_text |-> OrNull(Get(items[i], "unit_text"))]]

\* cmd.recipe_data.ingredients.map(...): one row per entry
IngredientsPayload(recipeId, cmd) ==
    LET items == Get(Get(cmd, "recipe_data"), "ingredients").items
    IN  [i \in 1..Len(items) |->
            [id |-> <<recipeId, i>>,
             name |-> Get(items[i], "name"),
             normalized_name |-> OrNull(Get(items[i], "normalized_name")),
             quantity |-> Get(items[i], "quantity"),
             recipe_id |-> recipeId,
             unit_id |-> OrNull(Get(items[i], "unit_id")),
             unit_text |-> OrNull(Get(items[i], "unit_text"))]]

\* the rows as the bulk insert stores and reports them (.select('*')): as
\* sent, or with a column filled in by the database
ReportedIngredients(rows) ==
    {rows,
     [i \in DOMAIN rows |->
        [rows[i] EXCEPT !.normalized_name = IF @ = Null THEN Text(5) ELSE @]]}

AuditPayload(recipeId, userId, cmd) ==
    [action |-> "create", anonymized_id |-> "null", recipe_id |-> recipeId, user_id |-> userId,
     meta |-> [title |-> Get(cmd, "title")]]

AssembleResponse_RowNutrition(recipeData, cmd, ingredients) ==
    [id |-> recipeData.id, owner_user_id |-> recipeData.owner_user_id, title |-> recipeData.title,
     raw_text |-> recipeData.raw_text, recipe_data |-> Get(cmd, "recipe_data"),
     ingredients |-> ingredients, cached_nutrition |-> recipeData.cached_nutrition]

AssembleResponse_FromRow(recipeData, cmd, ingredients) ==
    [id |-> recipeData.id, owner_user_id |-> recipeData.owner_user_id, title |-> recipeData.title,
     raw_text |-> recipeData.raw_text, recipe_data |-> recipeData.recipe_data,
     ingredients |-> ingredients, cached_nutrition |-> "null"]

\* { ...recipeData, recipe_data: cmd.recipe_data, ingredients, cached_nutrition: null }
AssembleResponse(recipeData, cmd, ingredients) ==
    [id |-> recipeData.id, owner_user_id |-> recipeData.owner_user_id, title |-> recipeData.title,
     raw_text |-> recipeData.raw_text, recipe_data |-> Get(cmd, "recipe_data"),
     ingredients |-> ingredients, cached_nutrition |-> "null"]

Set(r, new) == req' = [req EXCEPT ![r] = new]
Respond(r, cur, resp) == Set(r, [cur EXCEPT !.pc = "responded", !.resp = resp])
Did(cur, op) == [cur EXCEPT !.ops = Append(@, op)]
Logged(cur, line) == [cur EXCEPT !.logs = Append(@, line)]

\* createRecipe returns and the handler answers 201
RespondCreated(r, cur) ==
    Respond(r, cur, Created(AssembleResponse(cur.recipeData[1], cur.body, cur.ingredients)))
\* the messages of the exceptions a rejected call can carry
RejectionMessages == {"", "fetch failed"}
\* the message createRecipe fails with: the one of the Error it throws after
\* an {error} answer, or the one of the rejection
FailureMessages(outcome, thrown) == IF outcome = "throw" THEN RejectionMessages ELSE {thrown}

MessageOrInternal_Raw(message) == message

\* e.message || 'internal'
MessageOrInternal(message) == IF message = "" THEN "internal" ELSE message

\* createRecipe throws and the handler's catch answers 500
RespondCreateFailed(r, cur, message) ==
    Respond(r, Logged(cur, "Create recipe failed"),
            Fail(500, "internal_error", MessageOrInternal(message)))
RespondResolveFailed(r, cur) ==
    Respond(r, Logged(cur, "Failed to resolve/create user mapping"),
            Fail(500, "internal_error", "Failed to resolve user"))

\* request.json(), validateCreateRecipeCommand, and the part of
\* getAuthUserIdFromHeader that precedes supabaseClient.auth.getUser
Receive(r) ==
    /\ req[r].pc = "idle"
    /\ served < MaxRequests * Cardinality(DOMAIN req)
    /\ served' = served + 1
    /\ \E body \in HandlerBodies, header \in AuthHeaders :
        LET cur == [IdleRequest EXCEPT !.body = body, !.header = header]
            validation == validateCreateRecipeCommand(body)
        IN  IF body = Unparsable
                THEN Respond(r, cur, Fail(400, "bad_request", "Invalid JSON body"))
            ELSE IF validation.k /= "valid"
                THEN Respond(r, cur, [Fail(400, "bad_request", "Validation failed")
                                        EXCEPT !.details = validation.errors])
            ELSE IF header \in {"absent", "one-part"}
                THEN Respond(r, cur, Fail(401, "unauthorized", "Missing or invalid token"))
            ELSE Set(r, [cur EXCEPT !.pc = "auth"])
    /\ UNCHANGED <<dbVars, apiKey, valVars, llmVars>>

Authenticate_AfterLookup(r) ==
    /\ req[r].pc = "auth"
    /\ \E outcome \in {"user", "error", "throw"} :
        /\ outcome = "user" => req[r].header = "good"
        /\ LET cur == Did(req[r], "auth_user_map.select")
           IN  IF outcome = "user"
                   THEN Set(r, [cur EXCEPT !.pc = "map_select", !.authUserId = AuthUser])
                   ELSE Respond(r, cur, Fail(401, "unauthorized", "Missing or invalid token"))
    /\ UNCHANGED <<dbVars, apiKey, served, valVars, llmVars>>

\* supabaseClient.auth.getUser(token) settles
Authenticate(r) ==
    /\ req[r].pc = "auth"
    /\ \E outcome \in {"user", "error", "throw"} :
        /\ outcome = "user" => req[r].header = "good"
        /\ LET cur == IF outcome = "throw" THEN Logged(req[r], "Auth verify failed") ELSE req[r]
           IN  IF outcome = "user"
                   THEN Set(r, [cur EXCEPT !.pc = "map_select", !.authUserId = AuthUser])
                   ELSE Respond(r, cur, Fail(401, "unauthorized", "Missing or invalid token"))
    /\ UNCHANGED <<dbVars, apiKey, served, valVars, llmVars>>

MappingsOf(authUserId) ==
    {dbMap[i].user_id : i \in {j \in 1..Len(dbMap) : dbMap[j].auth_user_id = authUserId}}

EnterCreateRecipe_SkipRecipeInsert(cur, userId) ==
    [cur EXCEPT !.pc = "ingredients_insert", !.userId = userId, !.recipeId = served,
                !.recipeData = <<RecipeInsertPayload(served, userId, cur.body)>>]

\* the first statement of createRecipe: const recipeId = uuidv4()
EnterCreateRecipe(cur, userId) ==
    [cur EXCEPT !.pc = "recipe_insert", !.userId = userId, !.recipeId = served]

\* select on auth_user_map settles
SelectMapping(r) ==
    /\ req[r].pc = "map_select"
    /\ \E outcome \in DbOutcomes :
        LET cur == Did(req[r], "auth_user_map.select")
        IN  IF outcome = "throw" THEN RespondResolveFailed(r, cur)
            ELSE IF outcome = "ok" /\ MappingsOf(cur.authUserId) /= {}
                THEN \E u \in MappingsOf(cur.authUserId) : Set(r, EnterCreateRecipe(cur, u))
            ELSE Set(r, [cur EXCEPT !.pc = "user_insert"])
    /\ UNCHANGED <<dbVars, apiKey, served, valVars, llmVars>>

\* insert into users settles; newUser.user_id throws when no row came back
InsertUser(r) ==
    /\ req[r].pc = "user_insert"
    /\ \E outcome \in DbOutcomes :
        LET cur == Did(req[r], "users.insert")
        IN  IF outcome = "ok"
                THEN /\ dbUsers' = Append(dbUsers, cur.authUserId)
                     /\ Set(r, [cur EXCEPT !.pc = "map_insert", !.userId = cur.authUserId])
                ELSE /\ UNCHANGED dbUsers
                     /\ RespondResolveFailed(r, cur)
    /\ UNCHANGED <<dbRecipes, dbIngredients, dbAudit, dbMap, apiKey, served, valVars, llmVars>>

\* insert into auth_user_map settles
InsertMapping(r) ==
    /\ req[r].pc = "map_insert"
    /\ \E outcome \in DbOutcomes :
        LET cur == Did(req[r], "auth_user_map.insert")
        IN  /\ dbMap' = IF outcome = "ok"
                            THEN Append(dbMap, [auth_user_id |-> cur.authUserId, user_id |-> cur.userId])
                            ELSE dbMap
            /\ IF outcome = "throw" THEN RespondResolveFailed(r, cur)
               ELSE Set(r, EnterCreateRecipe(cur, cur.userId))
    /\ UNCHANGED <<dbRecipes, dbIngredients, dbAudit, dbUsers, apiKey, served, valVars, llmVars>>

InsertRecipe_InTransaction(r) ==
    /\ req[r].pc = "recipe_insert"
    /\ \E outcome \in DbOutcomes :
        LET cur == Did(req[r], "recipes.insert")
        IN  IF outcome = "ok"
                THEN \E row \in StoredRows(RecipeInsertPayload(cur.recipeId, cur.userId, cur.body)) :
                        Set(r, [cur EXCEPT !.pc = "ingredients_insert", !.recipeData = <<row>>])
            ELSE \E message \in FailureMessages(outcome, "Failed to insert recipe") :
                    RespondCreateFailed(r, cur, message)
    /\ UNCHANGED <<dbVars, apiKey, served, valVars, llmVars>>

InsertRecipe_ErrorIgnored(r) ==
    /\ req[r].pc = "recipe_insert"
    /\ \E outcome \in DbOutcomes :
        LET cur == Did(req[r], "recipes.insert")
        IN  IF outcome = "ok"
                THEN \E row \in StoredRows(RecipeInsertPayload(cur.recipeId, cur.userId, cur.body)) :
                        /\ dbRecipes' = dbRecipes \cup {row}
                        /\ Set(r, [cur EXCEPT !.pc = "ingredients_insert", !.recipeData = <<row>>])
            ELSE /\ UNCHANGED dbRecipes
                 /\ Set(r, [cur EXCEPT !.pc = "ingredients_insert"])
    /\ UNCHANGED <<dbIngredients, dbAudit, dbUsers, dbMap, apiKey, served, valVars, llmVars>>

\* insert into recipes settles
InsertRecipe(r) ==
    /\ req[r].pc = "recipe_insert"
    /\ \E outcome \in DbOutcomes :
        LET cur == Did(req[r], "recipes.insert")
        IN  IF outcome = "ok"
                THEN \E row \in StoredRows(RecipeInsertPayload(cur.recipeId, cur.userId, cur.body)) :
                        /\ dbRecipes' = dbRecipes \cup {row}
                        /\ Set(r, [cur EXCEPT !.pc = "ingredients_insert", !.recipeData = <<row>>])
            ELSE /\ UNCHANGED dbRecipes
                 /\ \E message \in FailureMessages(outcome, "Failed to insert recipe") :
                        RespondCreateFailed(r, cur, message)
    /\ UNCHANGED <<dbIngredients, dbAudit, dbUsers, dbMap, apiKey, served, valVars, llmVars>>

\* bulk insert into ingredients settles
InsertIngredients(r) ==
    /\ req[r].pc = "ingredients_insert"
    /\ \E outcome \in DbOutcomes :
        LET cur == Did(req[r], "ingredients.insert")
            rows == IngredientsPayload(cur.recipeId, cur.body)
        IN  IF outcome = "ok"
                THEN \E stored \in ReportedIngredients(rows) :
                        /\ dbIngredients' = dbIngredients \cup {stored[i] : i \in 1..Len(stored)}
                        /\ Set(r, [cur EXCEPT !.pc = "audit", !.ingredients = stored])
            ELSE IF outcome = "error"
                THEN /\ UNCHANGED dbIngredients
                     /\ Set(r, [cur EXCEPT !.pc = "cleanup",
                                           !.pendingError = "Failed to insert ingredients"])
            ELSE /\ UNCHANGED dbIngredients
                 /\ \E message \in RejectionMessages : RespondCreateFailed(r, cur, message)
    /\ UNCHANGED <<dbRecipes, dbAudit, dbUsers, dbMap, apiKey, served, valVars, llmVars>>

\* the compensating delete settles, then the ingredient error is thrown
DeleteRecipe(r) ==
    /\ req[r].pc = "cleanup"
    /\ \E outcome \in DbOutcomes :
        LET cur == Did(req[r], "recipes.delete")
        IN  /\ dbRecipes' = IF outcome = "ok" THEN {row \in dbRecipes : row.id /= cur.recipeId}
                            ELSE dbRecipes
            /\ \E message \in FailureMessages(outcome, cur.pendingError) :
                    RespondCreateFailed(r, cur, message)
    /\ UNCHANGED <<dbIngredients, dbAudit, dbUsers, dbMap, apiKey, served, valVars, llmVars>>

InsertAudit_Fatal(r) ==
    /\ req[r].pc = "audit"
    /\ \E outcome \in DbOutcomes :
        LET cur == Did(req[r], "recipe_audit.insert")
        IN  /\ dbAudit' = IF outcome = "ok"
                              THEN dbAudit \cup {AuditPayload(cur.recipeId, cur.userId, cur.body)}
                              ELSE dbAudit
            /\ IF outcome /= "ok" THEN RespondCreateFailed(r, cur, "Failed to write audit row")
               ELSE IF apiKey = <<>> THEN RespondCreated(r, cur)
               ELSE Set(r, [cur EXCEPT !.pc = "enrich"])
    /\ UNCHANGED <<dbRecipes, dbIngredients, dbUsers, dbMap, apiKey, served, valVars, llmVars>>

\* insert into recipe_audit settles; without an API key createRecipe then
\* runs to its return
InsertAudit(r) ==
    /\ req[r].pc = "audit"
    /\ \E outcome \in DbOutcomes :
        LET did == Did(req[r], "recipe_audit.insert")
            cur == IF outcome = "throw" THEN Logged(did, "Failed to write audit row") ELSE did
        IN  /\ dbAudit' = IF outcome = "ok"
                              THEN dbAudit \cup {AuditPayload(cur.recipeId, cur.userId, cur.body)}
                              ELSE dbAudit
            /\ IF apiKey = <<>> THEN RespondCreated(r, cur)
               ELSE Set(r, [cur EXCEPT !.pc = "enrich"])
    /\ UNCHANGED <<dbRecipes, dbIngredients, dbUsers, dbMap, apiKey, served, valVars, llmVars>>

Enrich_Fatal(r) ==
    /\ req[r].pc = "enrich"
    /\ \E outcome \in SendStructuredOutcomes :
        LET cur == Did(req[r], "openrouter.sendStructuredMessage")
        IN  IF outcome.k = "return"
                THEN Set(r, [cur EXCEPT !.pc = "nutrition_update"])
                ELSE RespondCreateFailed(r, cur, outcome.err.msg)
    /\ UNCHANGED <<dbVars, apiKey, served, valVars, llmVars>>

\* await llm.sendStructuredMessage(...) settles
Enrich(r) ==
    /\ req[r].pc = "enrich"
    /\ \E outcome \in SendStructuredOutcomes :
        LET cur == Did(req[r], "openrouter.sendStructuredMessage")
        IN  IF outcome.k = "return"
                THEN Set(r, [cur EXCEPT !.pc = "nutrition_update"])
                ELSE RespondCreated(r, Logged(cur, "Nutrition enrichment failed"))
    /\ UNCHANGED <<dbVars, apiKey, served, valVars, llmVars>>

\* update of recipes.cached_nutrition settles, and createRecipe returns
UpdateNutrition(r) ==
    /\ req[r].pc = "nutrition_update"
    /\ \E outcome \in DbOutcomes :
        LET did == Did(req[r], "recipes.update")
            cur == IF outcome = "throw" THEN Logged(did, "Failed to persist cached_nutrition") ELSE did
        IN  /\ dbRecipes' = IF outcome = "ok"
                                THEN {IF row.id = cur.recipeId
                                          THEN [row EXCEPT !.cached_nutrition = "nutritionMap"]
                                          ELSE row : row \in dbRecipes}
                                ELSE dbRecipes
            /\ RespondCreated(r, cur)
    /\ UNCHANGED <<dbIngredients, dbAudit, dbUsers, dbMap, apiKey, served, valVars, llmVars>>

\* the response has been sent; the next request may arrive
Finish(r) ==
    /\ req[r].pc = "responded"
    /\ Set(r, IdleRequest)
    /\ UNCHANGED <<dbVars, apiKey, served, valVars, llmVars>>

Init ==
    /\ ValidatorIdle
    /\ LlmIdle
    /\ dbRecipes = {}
    /\ dbIngredients = {}
    /\ dbAudit = {}
    /\ \/ dbUsers = <<>> /\ dbMap = <<>>
       \/ dbUsers = <<MappedUser>> /\ dbMap = <<[auth_user_id |-> AuthUser, user_id |-> MappedUser]>>
    /\ apiKey \in {<<>>, <<"sk-key">>}
    /\ served = 0
    /\ req = [r \in Requests |-> IdleRequest]

Next ==
    \/ \E r \in DOMAIN req : Receive(r)
    \/ \E r \in DOMAIN req : Authenticate(r)
    \/ \E r \in DOMAIN req : SelectMapping(r)
    \/ \E r \in DOMAIN req : InsertUser(r)
    \/ \E r \in DOMAIN req : InsertMapping(r)
    \/ \E r \in DOMAIN req : InsertRecipe(r)
    \/ \E r \in DOMAIN req : InsertIngredients(r)
    \/ \E r \in DOMAIN req : DeleteRecipe(r)
    \/ \E r \in DOMAIN req : InsertAudit(r)
    \/ \E r \in DOMAIN req : Enrich(r)
    \/ \E r \in DOMAIN req : UpdateNutrition(r)
    \/ \E r \in DOMAIN req : Finish(r)
Spec == Init /\ [][Next]_vars

\* two requests in flight at once, each awaiting its own calls, over a
\* database that holds no mapping yet: the handler up to the call of
\* createRecipe
ConcurrentRequests == {"r1", "r2"}
InitConcurrent ==
    /\ ValidatorIdle
    /\ LlmIdle
    /\ dbRecipes = {}
    /\ dbIngredients = {}
    /\ dbAudit = {}
    /\ dbUsers = <<>>
    /\ dbMap = <<>>
    /\ apiKey = <<>>
    /\ served = 0
    /\ req = [r \in ConcurrentRequests |-> IdleRequest]
NextConcurrent ==
    \/ \E r \in DOMAIN req : Receive(r)
    \/ \E r \in DOMAIN req : Authenticate(r)
    \/ \E r \in DOMAIN req : SelectMapping(r)
    \/ \E r \in DOMAIN req : InsertUser(r)
    \/ \E r \in DOMAIN req : InsertMapping(r)
SpecConcurrent == InitConcurrent /\ [][NextConcurrent]_vars

\* ========================================================================
\* Properties
\* ========================================================================
StepsOf(body) == Get(Get(body, "recipe_data"), "steps")
IngredientsOf(body) == Get(Get(body, "recipe_data"), "ingredients")
HasErrorAt(result, path, i) ==
    result.k = "invalid" /\ \E e \in result.errors : e.path = path /\ e.idx = <<i>>
IsStringOfLen(s, lens) == s.t = "string" /\ s.len \in lens
\* the body with recipe_data.steps replaced
WithSteps(body, steps) ==
    Obj([body.fields EXCEPT !["recipe_data"] = Obj([@.fields EXCEPT !["steps"] = steps])])
\* the body with the quantity of every ingredient replaced
WithQuantities(body, q) ==
    Obj([body.fields EXCEPT !["recipe_data"] = Obj([@.fields EXCEPT !["ingredients"] =
        Arr([i \in 1..Len(@.items) |-> Obj([@.items[i].fields EXCEPT !["quantity"] = q])])])])
IsPositiveNumber(q) == q.t = "number" /\ (q.k = "inf" \/ (q.k = "fin" /\ q.v > 0))
IsNonPositiveNumber(q) == q.t = "number" /\ (q.k = "-inf" \/ (q.k = "fin" /\ q.v <= 0))

\* C8: a step string of length 9 or 501 at index i makes validation fail with
\* an errors entry keyed recipe_data.steps[i]; an input that is valid apart
\* from its steps, and whose steps all have length 10 or 500, is accepted.
C8_StepLengthBoundary ==
    (vPc = "validated" /\ IsArray(StepsOf(vBody))) =>
        LET steps == StepsOf(vBody).items
        IN  /\ \A i \in 1..Len(steps) :
                  IsStringOfLen(steps[i], {9, 501}) =>
                      HasErrorAt(vResult, "recipe_data.steps", i - 1)
            /\ ( /\ \A i \in 1..Len(steps) : IsStringOfLen(steps[i], {10, 500})
                 /\ validateCreateRecipeCommand(WithSteps(vBody, Arr(<<>>))).k = "valid" )
               => vResult.k = "valid"

C8_Witness ==
    /\ vPc = "validated"
    /\ IsArray(StepsOf(vBody))
    /\ Len(StepsOf(vBody).items) = 2
    /\ IsStringOfLen(StepsOf(vBody).items[1], {500})
    /\ IsStringOfLen(StepsOf(vBody).items[2], {9})
    /\ HasErrorAt(vResult, "recipe_data.steps", 1)
    /\ ~HasErrorAt(vResult, "recipe_data.steps", 0)

\* C9: an ingredient at index i whose quantity is a number <= 0 makes
\* validation fail with an errors entry for recipe_data.ingredients[i] whose
\* message names index i; an input that is valid apart from its quantities,
\* and whose quantities are all positive numbers, is accepted.
C9_QuantityPositive ==
    (vPc = "validated" /\ IsArray(IngredientsOf(vBody))) =>
        LET ings == IngredientsOf(vBody).items
        IN  /\ \A i \in 1..Len(ings) :
                  (ings[i].t = "object" /\ IsNonPositiveNumber(Get(ings[i], "quantity"))) =>
                      /\ HasErrorAt(vResult, "recipe_data.ingredients", i - 1)
                      /\ \A e \in vResult.errors :
                            (e.path = "recipe_data.ingredients" /\ e.idx = <<i - 1>>)
                                => e.msgIdx = <<i - 1>>
            /\ ( /\ \A i \in 1..Len(ings) :
                        ings[i].t = "object" /\ IsPositiveNumber(Get(ings[i], "quantity"))
                 /\ validateCreateRecipeCommand(WithQuantities(vBody, Num(200))).k = "valid" )
               => vResult.k = "valid"

C9_Witness ==
    /\ vPc = "validated"
    /\ IsArray(IngredientsOf(vBody))
    /\ Len(IngredientsOf(vBody).items) = 2
    /\ IngredientsOf(vBody).items[1] = Ingredient(Text(6), Num(1), Undefined, Undefined, Undefined)
    /\ IngredientsOf(vBody).items[2] = Ingredient(Text(6), Num(0), Undefined, Undefined, Undefined)
    /\ HasErrorAt(vResult, "recipe_data.ingredients", 1)
    /\ ~HasErrorAt(vResult, "recipe_data.ingredients", 0)

\* C10: validateCreateRecipeCommand never throws: for every input it returns
\* valid, or invalid with a non-empty errors map.
C10_ValidatorTotal ==
    vPc = "validated" =>
        \/ vResult.k = "valid"
        \/ vResult.k = "invalid" /\ vResult.errors /= {}

C10_Witness ==
    /\ vPc = "validated"
    /\ IsArray(IngredientsOf(vBody))
    /\ \E i \in 1..Len(IngredientsOf(vBody).items) : IngredientsOf(vBody).items[i] = Null
    /\ vResult.k = "invalid"
    /\ vResult.errors /= {}

IsHttp(res) == res.kind = "http"
LastResponse == llmTrace[Len(llmTrace)]
\* a 2xx answer whose body parsed as JSON
IsParsedSuccess(res) == IsHttp(res) /\ ResOk(res) /\ res.json /= <<>>
\* the value of a provider answer that is checked against the schema
ExtractedPayload(data) ==
    LET c == Candidate(data)
    IN  IF ~c.isNull /\ c.output /= <<>> THEN c.output[1] ELSE c

\* C2: when every attempt of sendMessage is answered with 429 and a
\* Retry-After header, the call sends maxRetries + 1 requests in total, never
\* more, and fails with a RateLimitError carrying the advertised value.
C2_RateLimitSurfaced ==
    LET allRateLimited ==
            /\ llmTrace /= <<>>
            /\ \A i \in 1..Len(llmTrace) :
                  /\ IsHttp(llmTrace[i])
                  /\ llmTrace[i].status = 429
                  /\ llmTrace[i].header = <<[num |-> <<30>>]>>
    IN  allRateLimited =>
            /\ llmHttp <= ConfiguredMaxRetries(llmCfg) + 1
            /\ llmPc = "done" =>
                  /\ llmHttp = ConfiguredMaxRetries(llmCfg) + 1
                  /\ llmOut.k = "throw"
                  /\ llmOut.err.name = "RateLimitError"
                  /\ llmOut.err.retryAfter = <<30>>

\* C3: an attempt that ends with HTTP 401, another non-success status other
\* than 429, or an unparsable body is the last request of its sendMessage
\* call; when it is the first attempt, exactly one request was sent.
C3_OnlyNetworkAndRateLimitRetried ==
    \A i \in 1..Len(llmTrace) :
        ( /\ IsHttp(llmTrace[i])
          /\ \/ ~ResOk(llmTrace[i]) /\ llmTrace[i].status /= 429
             \/ ResOk(llmTrace[i]) /\ llmTrace[i].json = <<>> )
        => (i = Len(llmTrace) /\ (i = 1 => llmHttp = 1))

\* C4: a sendMessage call whose last answer is a 401 fails with an
\* AuthenticationError; one whose last answer is another non-success status
\* other than 429 fails with an OpenRouterError carrying that status and the
\* response body.
C4_ErrorClassifiedByStatus ==
    (llmPc = "done" /\ llmTrace /= <<>> /\ IsHttp(LastResponse) /\ ~ResOk(LastResponse)) =>
        /\ LastResponse.status = 401 =>
              (llmOut.k = "throw" /\ llmOut.err.name = "AuthenticationError")
        /\ LastResponse.status \notin {401, 429} =>
              /\ llmOut.k = "throw"
              /\ llmOut.err.name = "OpenRouterError"
              /\ llmOut.err.status = <<LastResponse.status>>
              /\ llmOut.err.body = <<LastResponse.text>>

\* C5: when the successful answer to sendStructuredMessage does not match the
\* requested schema, the call fails with a ResponseFormatError carrying the
\* validator's errors, and no request follows a successful answer (the
\* mismatch is not retried).
C5_SchemaMismatchNotRetried ==
    /\ ( /\ llmCall.kind = "sendStructuredMessage"
         /\ llmCall.schemaCompiles
         /\ llmPc = "done"
         /\ llmTrace /= <<>>
         /\ IsParsedSuccess(LastResponse)
         /\ ~ExtractedPayload(LastResponse.json[1]).m )
       => ( /\ llmOut.k = "throw"
            /\ llmOut.err.name = "ResponseFormatError"
            /\ llmOut.err.details = <<"validator.errors">>
            /\ llmHttp = Len(llmTrace) )
    /\ \A i \in 1..Len(llmTrace) : IsParsedSuccess(llmTrace[i]) => i = Len(llmTrace)

C5_Witness ==
    /\ llmCall.kind = "sendStructuredMessage"
    /\ llmPc = "done"
    /\ Len(llmTrace) = 2
    /\ llmTrace[1] = NetFail
    /\ llmTrace[2] = HttpOk(<<Json(FALSE, TRUE, <<Leaf(FALSE)>>, <<>>)>>)
    /\ llmOut.k = "throw"
    /\ llmOut.err.name = "ResponseFormatError"
    /\ llmHttp = 2


\* ------------------------------------------------------------------------
\* POST /api/v1/recipes and createRecipe
\* ------------------------------------------------------------------------
LastOp(cur) == IF cur.ops = <<>> THEN "" ELSE cur.ops[Len(cur.ops)]
Performed(cur, op) == \E i \in 1..Len(cur.ops) : cur.ops[i] = op
\* createRecipe has finished for r, its recipe insert having succeeded and
\* its ingredient bulk insert having failed (returned an error or rejected)
IngredientInsertFailed(cur) ==
    /\ cur.pc = "responded"
    /\ cur.recipeData /= <<>>
    /\ LastOp(cur) \in {"ingredients.insert", "recipes.delete"}
RecipePersisted(recipeId) == \E row \in dbRecipes : row.id = recipeId
\* the internal user ids the auth mapping resolves cur's caller to: the id
\* of the user row the handler created, or an id mapped in auth_user_map
ResolvedUserIds(cur) ==
    IF Performed(cur, "users.insert") THEN {cur.authUserId} ELSE MappingsOf(cur.authUserId)
HasBodyOwner(cur) == cur.body.t = "object" /\ "owner_user_id" \in DOMAIN cur.body.fields

\* C1: whenever the ingredient bulk insert failed after the recipe insert
\* succeeded, the recipe row of that call is no longer persisted once
\* createRecipe has finished, whatever the persistence calls answered.
C1_NoRecipeAfterIngredientFailure ==
    \A r \in DOMAIN req :
        IngredientInsertFailed(req[r]) => ~RecipePersisted(req[r].recipeId)

\* C6: the owner_user_id of the recipes row a request wrote, and the user_id
\* of its audit row, equal the internal user id resolved from the auth
\* mapping, whether or not the body supplies an owner_user_id.
C6_OwnerIsResolvedUser ==
    \A r \in DOMAIN req :
        req[r].recipeData /= <<>> =>
            /\ req[r].userId \in ResolvedUserIds(req[r])
            /\ \A row \in dbRecipes :
                row.id = req[r].recipeId => row.owner_user_id = req[r].userId
            /\ \A a \in dbAudit :
                a.recipe_id = req[r].recipeId => a.user_id = req[r].userId

\* a request whose body names another owner has created its recipe and
\* written its audit row
C6_Witness ==
    \E r \in DOMAIN req :
        /\ req[r].pc = "responded"
        /\ req[r].resp.status = 201
        /\ HasBodyOwner(req[r])
        /\ req[r].body.fields["owner_user_id"].s /= req[r].userId
        /\ RecipePersisted(req[r].recipeId)
        /\ \E a \in dbAudit : a.recipe_id = req[r].recipeId

\* C7: whenever createRecipe returns, the returned recipe's recipe_data is
\* the submitted recipe_data, whatever row the persistence layer returned.
C7_RecipeDataRoundTrip ==
    \A r \in DOMAIN req :
        (req[r].pc = "responded" /\ req[r].resp.status = 201) =>
            req[r].resp.recipe[1].recipe_data = Get(req[r].body, "recipe_data")

\* createRecipe has returned although the inserted row came back from the
\* database with another recipe_data
C7_Witness ==
    \E r \in DOMAIN req :
        /\ req[r].pc = "responded"
        /\ req[r].resp.status = 201
        /\ req[r].recipeData[1].recipe_data /= Get(req[r].body, "recipe_data")


Responded(cur, statuses) == cur.pc = "responded" /\ cur.resp.status \in statuses

\* C11: a request answered 400 (validation failed) or 401 (token missing or
\* invalid) has executed no persistence operation: no read or write of
\* auth_user_map, users, recipes, ingredients or recipe_audit.
C11_NoPersistenceBeforeAuth ==
    \A r \in DOMAIN req :
        Responded(req[r], {400, 401}) => req[r].ops = <<>>

\* a token the auth service rejects is answered 401 while a mapping that a
\* lookup would have found is stored
C11_Witness ==
    \E r \in DOMAIN req :
        /\ Responded(req[r], {401})
        /\ req[r].header = "bad"
        /\ dbMap /= <<>>
        /\ req[r].ops = <<>>

\* C12: every response with a status other than 201 is a 400, 401 or 500
\* whose error object has a code and a message; a 400 caused by a validation
\* failure also carries the validator's per-field errors map.
C12_ErrorBodyShape ==
    \A r \in DOMAIN req :
        (req[r].pc = "responded" /\ req[r].resp.status /= 201) =>
            /\ req[r].resp.status \in {400, 401, 500}
            /\ req[r].resp.code /= ""
            /\ req[r].resp.message /= ""
            /\ (req[r].resp.status = 400 /\ req[r].body /= Unparsable) =>
                  /\ req[r].resp.details = validateCreateRecipeCommand(req[r].body).errors
                  /\ req[r].resp.details /= {}

\* a body with a step that is too short has been answered 400 with the
\* validator's errors
C12_Witness ==
    \E r \in DOMAIN req :
        /\ Responded(req[r], {400})
        /\ req[r].body = Body(Text(19), Text(40), ShortStepData)
        /\ req[r].resp.code = "bad_request"
        /\ req[r].resp.details /= {}


AuditPersisted(recipeId) == \E a \in dbAudit : a.recipe_id = recipeId
IngredientsPersisted(cur) ==
    \A i \in 1..Len(cur.ingredients) : cur.ingredients[i] \in dbIngredients
\* the audit insert of cur's createRecipe call was issued and wrote no row
AuditInsertFailed(cur) ==
    Performed(cur, "recipe_audit.insert") /\ ~AuditPersisted(cur.recipeId)

\* C13: when the audit insert fails (answers an error or rejects) after the
\* recipe and ingredient inserts succeeded, createRecipe still returns the
\* assembled recipe and the recipe and ingredient rows stay persisted.
C13_AuditFailureNotFatal ==
    \A r \in DOMAIN req :
        (req[r].pc = "responded" /\ AuditInsertFailed(req[r])) =>
            /\ req[r].resp.status = 201
            /\ req[r].resp.recipe /= <<>>
            /\ req[r].resp.recipe[1].id = req[r].recipeId
            /\ RecipePersisted(req[r].recipeId)
            /\ req[r].ingredients /= <<>>
            /\ IngredientsPersisted(req[r])

\* the audit insert rejected, the rejection was logged, and the request was
\* answered 201
C13_Witness ==
    \E r \in DOMAIN req :
        /\ Responded(req[r], {201})
        /\ AuditInsertFailed(req[r])
        /\ \E i \in 1..Len(req[r].logs) : req[r].logs[i] = "Failed to write audit row"


Logs(cur, line) == \E i \in 1..Len(cur.logs) : cur.logs[i] = line
EnrichmentSettled(cur) == Performed(cur, "openrouter.sendStructuredMessage")
NutritionCached(recipeId) ==
    \E row \in dbRecipes : row.id = recipeId /\ row.cached_nutrition = "nutritionMap"
\* the enrichment of cur's createRecipe call was attempted and did not end
\* with cached_nutrition written: the provider call failed, or the update did
EnrichmentFailed(cur) == EnrichmentSettled(cur) /\ ~NutritionCached(cur.recipeId)

\* C14: when the enrichment step fails (the provider call fails in any way,
\* or cached_nutrition cannot be persisted), createRecipe still returns the
\* recipe, and the recipe row as inserted, the ingredient rows and the audit
\* row written before are unchanged.
C14_EnrichmentFailureSwallowed ==
    \A r \in DOMAIN req :
        (req[r].pc = "responded" /\ EnrichmentFailed(req[r])) =>
            /\ req[r].resp.status = 201
            /\ req[r].resp.recipe[1].id = req[r].recipeId
            /\ req[r].recipeData[1] \in dbRecipes
            /\ IngredientsPersisted(req[r])
            /\ ~AuditInsertFailed(req[r]) =>
                  AuditPayload(req[r].recipeId, req[r].userId, req[r].body) \in dbAudit

\* the provider call failed after the audit row was written, and the
\* request was answered 201
C14_Witness ==
    \E r \in DOMAIN req :
        /\ Responded(req[r], {201})
        /\ EnrichmentFailed(req[r])
        /\ Logs(req[r], "Nutrition enrichment failed")
        /\ AuditPersisted(req[r].recipeId)

\* C15: enrichment never blocks the response: while the enrichment call of a
\* createRecipe call is pending, the 201 response can be produced without
\* the enrichment call having settled.
C15_EnrichmentNeverBlocks ==
    \A r \in DOMAIN req :
        req[r].pc = "enrich" =>
            ENABLED (Next /\ Responded(req[r], {201})' /\ ~EnrichmentSettled(req[r])')

C17_StreamingUnsupported ==
    llmCall.kind = "streamResponses" =>
        /\ llmPc = "done"
        /\ llmOut.k = "throw"
        /\ llmOut.err.name = "UnsupportedFeatureError"
        /\ llmHttp = 0
        /\ llmTrace = <<>>

\* streamResponses was called with valid messages on a service that is not
\* shut down, and has failed
C17_Witness ==
    /\ llmCall.kind = "streamResponses"
    /\ llmCall.messagesOk
    /\ ~llmShutdown
    /\ llmOut.k = "throw"
    /\ llmOut.err.name = "UnsupportedFeatureError"


\* the recipe insert of cur's createRecipe call was issued and returned no row
RecipeInsertFailed(cur) == Performed(cur, "recipes.insert") /\ cur.recipeData = <<>>
CreateRecipeOps ==
    {"recipes.insert", "ingredients.insert", "recipes.delete", "recipe_audit.insert",
     "openrouter.sendStructuredMessage", "recipes.update"}
\* the persistence and provider operations of cur's createRecipe call, in
\* the order in which they settled
CallOps(cur) == SelectSeq(cur.ops, LAMBDA op : op \in CreateRecipeOps)

C20_OriginalErrorPropagated ==
    \A r \in DOMAIN req :
        (req[r].pc = "responded" /\ Performed(req[r], "recipes.delete")) =>
            /\ req[r].resp.status = 500
            /\ req[r].resp.message = "Failed to insert ingredients"
            /\ RecipePersisted(req[r].recipeId) =>
                  \E i \in 1..Len(req[r].logs) : req[r].logs[i] /= "Create recipe failed"


IngredientRowsOf(recipeId) == {row \in dbIngredients : row.recipe_id = recipeId}

\* C21: between the recipe insert and the ingredient insert of one
\* createRecipe call, the recipe row is persisted and no ingredient row of
\* that recipe is: a reader of the tables at that point sees the recipe with
\* zero ingredients.
C21_RecipeVisibleWithoutIngredients ==
    \A r \in DOMAIN req :
        req[r].pc = "ingredients_insert" =>
            /\ RecipePersisted(req[r].recipeId)
            /\ IngredientRowsOf(req[r].recipeId) = {}

\* a createRecipe call stands between its two inserts, its body having two
\* ingredients
C21_Witness ==
    \E r \in DOMAIN req :
        /\ req[r].pc = "ingredients_insert"
        /\ LastOp(req[r]) = "recipes.insert"
        /\ Len(IngredientsOf(req[r].body).items) = 2
        /\ RecipePersisted(req[r].recipeId)
        /\ IngredientRowsOf(req[r].recipeId) = {}


Count(cur, op) == Cardinality({i \in 1..Len(cur.ops) : cur.ops[i] = op})

\* C22: when createRecipe returns, the ingredients table holds exactly one
\* row of this recipe per entry of recipe_data.ingredients, written by one
\* bulk insert, each with the call's recipe id and the entry's values, and
\* the returned ingredients are the rows that insert reported.
C22_OneRowPerIngredient ==
    \A r \in DOMAIN req :
        Responded(req[r], {201}) =>
            LET entries == IngredientsOf(req[r].body).items
                rows == IngredientRowsOf(req[r].recipeId)
            IN  /\ Count(req[r], "ingredients.insert") = 1
                /\ Cardinality(rows) = Len(entries)
                /\ \A i \in 1..Len(entries) :
                      \E row \in rows :
                          /\ row.id = <<req[r].recipeId, i>>
                          /\ row.recipe_id = req[r].recipeId
                          /\ row.name = Get(entries[i], "name")
                          /\ row.quantity = Get(entries[i], "quantity")
                /\ req[r].resp.recipe[1].ingredients = req[r].ingredients
                /\ {req[r].ingredients[i] : i \in 1..Len(req[r].ingredients)} = rows

\* a recipe with two ingredients was created, the database having filled a
\* column of the rows it reported
C22_Witness ==
    \E r \in DOMAIN req :
        /\ Responded(req[r], {201})
        /\ Len(IngredientsOf(req[r].body).items) = 2
        /\ Cardinality(IngredientRowsOf(req[r].recipeId)) = 2
        /\ req[r].resp.recipe[1].ingredients /= IngredientsPayload(req[r].recipeId, req[r].body)


\* every attempt of the current call so far timed out or failed in transport
AllTransportFailures ==
    /\ llmCall.kind /= "healthCheck"
    /\ llmTrace /= <<>>
    /\ \A i \in 1..Len(llmTrace) : llmTrace[i] \in {NetFail, Aborted}

\* C23: an attempt of sendMessage that times out or fails in transport is a
\* NetworkError and is retried; when every attempt fails this way the call
\* fails with a NetworkError after maxRetries + 1 attempts, not earlier.
C23_TransportFailureRetried ==
    AllTransportFailures =>
        /\ llmHttp = Len(llmTrace)
        /\ llmHttp <= ConfiguredMaxRetries(llmCfg) + 1
        /\ llmPc \in {"attempt", "waiting", "done"}
        /\ llmPc = "done" <=> llmHttp = ConfiguredMaxRetries(llmCfg) + 1
        /\ llmPc = "done" =>
              /\ llmOut.k = "throw"
              /\ llmOut.err.name = "NetworkError"
              /\ llmOut.err.msg = IF LastResponse = Aborted THEN "Request timeout"
                                  ELSE "Network request failed"

\* a call with the default three retries failed after a timeout, two
\* transport failures and a last timeout
C23_Witness ==
    /\ llmCfg = <<>>
    /\ llmTrace = <<Aborted, NetFail, NetFail, Aborted>>
    /\ llmPc = "done"
    /\ llmOut.err.name = "NetworkError"
    /\ llmOut.err.msg = "Request timeout"

\* C24: the delay before a retry is min(2000, 300 * 2^attempt) ms plus a
\* jitter in [0, 100), attempt being the number of failed attempts so far;
\* it never reaches 2100 ms and its base never decreases from one retry to
\* the next.
C24_BackoffDelay ==
    llmPc = "waiting" =>
        LET base == IF 300 * (2 ^ llmAttempt) < 2000 THEN 300 * (2 ^ llmAttempt) ELSE 2000
            prev == IF 300 * (2 ^ (llmAttempt - 1)) < 2000 THEN 300 * (2 ^ (llmAttempt - 1)) ELSE 2000
        IN  /\ llmAttempt = Len(llmTrace)
            /\ llmAttempt >= 1
            /\ llmWait >= base
            /\ llmWait < base + 100
            /\ llmWait < 2100
            /\ prev <= base

\* the third retry waits for the capped delay, with the largest jitter
C24_Witness ==
    /\ llmPc = "waiting"
    /\ llmAttempt = 3
    /\ llmWait = 2099


IsWellFormedUuid(x) == x.t = "string" /\ x.len = UuidLen /\ x.cls = "uuid"
\* the ingredient objects of the validated body whose unit_id is present
\* (neither missing nor null) and is not a well-formed UUID
IngredientsWithBadUnitId ==
    IF vPc = "validated" /\ IsArray(IngredientsOf(vBody))
    THEN {i \in 1..Len(IngredientsOf(vBody).items) :
            LET item == IngredientsOf(vBody).items[i] IN
            /\ item.t = "object"
            /\ Get(item, "unit_id") \notin {Undefined, Null}
            /\ ~IsWellFormedUuid(Get(item, "unit_id"))}
    ELSE {}

\* C26: an ingredient whose unit_id is present and is not a well-formed
\* 36-character UUID string makes validation fail with an entry for that
\* ingredient.
C26_UnitIdMustBeUuid ==
    \A i \in IngredientsWithBadUnitId :
        HasErrorAt(vResult, "recipe_data.ingredients", i - 1)


\* a sendMessage call (direct or through sendStructuredMessage) is in progress
SendInProgress ==
    /\ llmCall.kind \in {"sendMessage", "sendStructuredMessage"}
    /\ llmPc \in {"attempt", "waiting"}
\* the maxRetries option the service was built with, 3 when it was left out
MaxRetriesOption == IF llmCfg = <<>> THEN 3 ELSE llmCfg[1]
\* requests issued by the current sendMessage call stay within maxRetries + 1,
\* and with maxRetries = 0 a call that got past its argument checks never
\* waits for a retry and ends after exactly one request
RequestsWithinBudget ==
    llmCall.kind \in {"sendMessage", "sendStructuredMessage"} =>
        /\ llmHttp = Len(llmTrace)
        /\ llmHttp <= MaxRetriesOption + 1
        /\ llmCfg = <<0>> =>
              /\ llmPc /= "waiting"
              /\ (llmPc \in {"validate", "done"} /\ llmOut.err.name \notin {"OpenRouterError", "ValidationError"})
                    => llmHttp = 1
              /\ (llmPc = "done" /\ llmHttp = 0)
                    => (llmOut.k = "throw" /\ llmTrace = <<>>)

C28_ShutdownIsPermanent ==
    [][/\ llmShutdown => llmShutdown'
       /\ (/\ llmShutdown
           /\ llmPc = "idle"
           /\ llmCall'.kind \in {"sendMessage", "sendStructuredMessage"})
             => /\ llmPc' = "done"
                /\ llmOut'.k = "throw"
                /\ llmHttp' = 0
                /\ llmTrace' = <<>>]_vars

\* sendStructuredMessage was called after shutdown and was refused
C28_Witness ==
    /\ llmShutdown
    /\ llmCall.kind = "sendStructuredMessage"
    /\ llmPc = "done"
    /\ llmOut.k = "throw"
    /\ llmOut.err.msg = "Service is shutdown"
    /\ llmHttp = 0


\* the validated body has an object recipe_data whose ingredients and steps
\* are arrays
HasArraysToValidate ==
    /\ vPc = "validated"
    /\ vBody.t = "object"
    /\ Get(vBody, "recipe_data").t = "object"
    /\ IsArray(IngredientsOf(vBody))
    /\ IsArray(StepsOf(vBody))
InvalidIngredientIndexes ==
    {i \in 1..Len(IngredientsOf(vBody).items) :
        validateIngredient(IngredientsOf(vBody).items[i], i - 1) /= Returned("null")}
InvalidStepIndexes ==
    {j \in 1..Len(StepsOf(vBody).items) :
        LET s == StepsOf(vBody).items[j] IN
        s.t /= "string" \/ s.len < 10 \/ s.len > 500}

UserRowsOf(authUserId) == {i \in 1..Len(dbUsers) : dbUsers[i] = authUserId}
MapRowsOf(authUserId) == {i \in 1..Len(dbMap) : dbMap[i].auth_user_id = authUserId}

\* C30: however the requests of one user without a mapping interleave, the
\* handler inserts at most one users row and one auth_user_map row for the
\* user, and all requests that reach createRecipe carry the same internal
\* user id.
C30_OneUserRowOneMapping ==
    /\ Cardinality(UserRowsOf(AuthUser)) <= 1
    /\ Cardinality(MapRowsOf(AuthUser)) <= 1
    /\ \A r1, r2 \in DOMAIN req :
          (req[r1].pc = "recipe_insert" /\ req[r2].pc = "recipe_insert")
              => req[r1].userId = req[r2].userId

====
